---- MODULE Spec2Model ----
(***************************************************************************)
(* PlayScript validator (validate.py): the two-stage run of                *)
(* PlayScriptValidator.validate_all over a project of .ps files.           *)
(*                                                                         *)
(* A parsed YAML value is a record [k, s, n, c]:                           *)
(*   k  the Python type: "none", "str", "int", "list", "dict";            *)
(*   s  a str's text as a sequence of atoms ("picklist", ".", "excl"):     *)
(*      an atom stands for a run of characters that no check of the code   *)
(*      looks inside, and "." is always an atom of its own;                *)
(*   n  an int's value;                                                    *)
(*   c  a list's items, or a dict's <<key, value>> pairs in insertion      *)
(*      order.                                                             *)
(***************************************************************************)
EXTENDS Integers, Sequences, FiniteSets, TLC

\* ------------------------------------------------------------------ values

PyNone == [k |-> "none", s |-> <<>>, n |-> 0, c |-> <<>>]

PyStr(atoms) == [k |-> "str", s |-> atoms, n |-> 0, c |-> <<>>]

PyInt(i) == [k |-> "int", s |-> <<>>, n |-> i, c |-> <<>>]

PyList(items) == [k |-> "list", s |-> <<>>, n |-> 0, c |-> items]

PyDict(pairs) == [k |-> "dict", s |-> <<>>, n |-> 0, c |-> pairs]

\* A one-atom str, the common case.
W(a) == PyStr(<<a>>)

\* Python truthiness: `if x:` / `if not x:`.
Truthy(v) ==
    CASE v.k = "none" -> FALSE
      [] v.k = "str" -> v.s # <<>>
      [] v.k = "int" -> v.n # 0
      [] OTHER -> v.c # <<>>

IsDict(v) == v.k = "dict"

IsList(v) == v.k = "list"

IsStr(v) == v.k = "str"

\* hash(v) succeeds: a list or a dict as a set member or dict key raises TypeError.
Hashable(v) == v.k \notin {"list", "dict"}

\* `key in d` for a dict d.
HasKey(d, key) == \E p \in 1..Len(d.c) : d.c[p][1] = key

\* d.get(key, default) for a dict d.
Get(d, key, default) ==
    IF HasKey(d, key)
    THEN d.c[CHOOSE p \in 1..Len(d.c) : d.c[p][1] = key][2]
    ELSE default

\* v == 'literal', the literal given by its atoms.
StrEq(v, atoms) == v.k = "str" /\ v.s = atoms

\* `v in [literals]`: list membership compares with ==, so it never raises.
InList(v, literals) == \E p \in 1..Len(literals) : StrEq(v, literals[p])

\* str(v) as an f-string interpolates it.
Str(v) ==
    CASE v.k = "none" -> <<"None">>
      [] v.k = "str" -> v.s
      [] v.k = "int" -> <<ToString(v.n)>>
      [] v.k = "list" -> <<"[", ToString(Len(v.c)), "]">>
      [] OTHER -> <<"{", ToString(Len(v.c)), "}">>

\* `'.' in v`: substring test on a str, membership on a list, key test on a
\* dict; TypeError on None and int.
DotInRaises(v) == v.k \in {"none", "int"}

DotIn(v) ==
    CASE v.k = "str" -> \E p \in 1..Len(v.s) : v.s[p] = "."
      [] v.k = "list" -> \E p \in 1..Len(v.c) : StrEq(v.c[p], <<".">>)
      [] v.k = "dict" -> HasKey(v, ".")
      [] OTHER -> FALSE

FirstDot(atoms) == CHOOSE p \in 1..Len(atoms) :
    atoms[p] = "." /\ \A q \in 1..(p - 1) : atoms[q] # "."

\* text.split('.', 1) of a str that holds a '.': <<before, after>>.
SplitDot(atoms) ==
    <<PyStr(SubSeq(atoms, 1, FirstDot(atoms) - 1)),
      PyStr(SubSeq(atoms, FirstDot(atoms) + 1, Len(atoms)))>>

\* `for x in v`: a list yields its items, a dict its keys, a str its
\* characters (atoms); None and int raise TypeError.
Iterable(v) == v.k \in {"list", "dict", "str"}

IterItems(v) ==
    CASE v.k = "list" -> v.c
      [] v.k = "dict" -> [p \in 1..Len(v.c) |-> W(v.c[p][1])]
      [] v.k = "str" -> [p \in 1..Len(v.s) |-> W(v.s[p])]
      [] OTHER -> <<>>

\* ------------------------------------------------------------- diagnostics

\* ValidationError(file_path, error_type, message[, severity]); line_number
\* is never set by the validator and stays None.
ValidationError(file_path, error_type, message, severity) ==
    [file_path |-> file_path, error_type |-> error_type,
     message |-> message, severity |-> severity]

\* self.errors.insert(0, ValidationError(...)) for append: the new entry goes
\* in front of the ones recorded before.
AddErrorInFront(self, file_path, error_type, message) ==
    [self EXCEPT !.errors =
        <<ValidationError(file_path, error_type, message, "error")>> \o @]

\* self.errors.append(ValidationError(...)), severity defaulting to "error".
AddError(self, file_path, error_type, message) ==
    [self EXCEPT !.errors =
        Append(@, ValidationError(file_path, error_type, message, "error"))]

\* self.warnings.append(ValidationError(..., severity="warning")).
AddWarning(self, file_path, error_type, message) ==
    [self EXCEPT !.warnings =
        Append(@, ValidationError(file_path, error_type, message, "warning"))]

\* The outcome of a method call: the validator as the call left it, and
\* whether the call ended by raising.
Ok(self) == [v |-> self, exc |-> FALSE]

Raise(self) == [v |-> self, exc |-> TRUE]

\* d[key] = value on a dict held as a function.
DictSet(d, key, value) ==
    [x \in DOMAIN d \cup {key} |-> IF x = key THEN value ELSE d[x]]

\* PlayScriptValidator.__init__
NewValidator ==
    [errors |-> <<>>, warnings |-> <<>>,
     schema_objects |-> {}, schema_fields |-> [x \in {} |-> {}],
     action_names |-> {}, integration_names |-> {},
     all_files |-> <<>>]

\* ------------------------------------------------------------ syntax stage

RECURSIVE check_required_fields_truthy(_, _, _, _)
\* _check_required_fields testing `not data.get(field)` for `field not in
\* data`: a field that is present and empty counts as missing.
check_required_fields_truthy(self, file_path, data, required_fields) ==
    IF required_fields = <<>>
    THEN self
    ELSE LET field == Head(required_fields)
             s1 == IF ~Truthy(Get(data, field, PyNone))
                   THEN AddError(self, file_path, "missing_required_field",
                                 <<"Missing required field: ", field>>)
                   ELSE self
         IN check_required_fields_truthy(s1, file_path, data, Tail(required_fields))

RECURSIVE check_required_fields(_, _, _, _)
\* _check_required_fields: one missing_required_field error per listed field
\* that is not a key of the document, in the order listed.
check_required_fields(self, file_path, data, required_fields) ==
    IF required_fields = <<>>
    THEN self
    ELSE LET field == Head(required_fields)
             s1 == IF ~HasKey(data, field)
                   THEN AddError(self, file_path, "missing_required_field",
                                 <<"Missing required field: ", field>>)
                   ELSE self
         IN check_required_fields(s1, file_path, data, Tail(required_fields))

valid_implementations ==
    <<<<"create_record">>, <<"integration_call">>, <<"python">>, <<"api_call">>>>

\* _validate_action
validate_action(self, file_path, data) ==
    LET s1 == check_required_fields(self, file_path, data,
                                    <<"name", "description", "implementation">>)
        name == Get(data, "name", PyNone)
        s2 == IF Truthy(name)
              THEN [s1 EXCEPT !.action_names = @ \cup {name}]
              ELSE s1
        implementation == Get(data, "implementation", PyNone)
        s3 == IF Truthy(implementation)
                 /\ ~InList(implementation, valid_implementations)
              THEN AddError(s2, file_path, "invalid_implementation",
                            <<"Invalid implementation: ">> \o Str(implementation))
              ELSE s2
        s4 == IF HasKey(data, "input_schema")
                 /\ ~IsDict(Get(data, "input_schema", PyNone))
              THEN AddError(s3, file_path, "invalid_schema",
                            <<"input_schema must be an object">>)
              ELSE s3
        s5 == IF HasKey(data, "output_schema")
                 /\ ~IsDict(Get(data, "output_schema", PyNone))
              THEN AddError(s4, file_path, "invalid_schema",
                            <<"output_schema must be an object">>)
              ELSE s4
        tags == Get(data, "tags", PyList(<<>>))
        s6 == IF Truthy(tags) /\ ~IsList(tags)
              THEN AddError(s5, file_path, "invalid_tags", <<"tags must be a list">>)
              ELSE s5
    IN  IF Truthy(name) /\ ~Hashable(name)
        THEN Raise(s1)   \* action_names.add(name): TypeError
        ELSE Ok(s6)

valid_field_types ==
    <<<<"string">>, <<"email">>, <<"datetime">>, <<"integer">>, <<"decimal">>,
      <<"boolean">>, <<"textarea">>, <<"picklist", ".", "excl">>,
      <<"picklist", ".", "multi">>>>

\* field_type.startswith('picklist') on a str.
StartsWithPicklist(v) == v.s # <<>> /\ v.s[1] = "picklist"

RECURSIVE schema_field_loop(_, _, _, _, _, _)
\* The `for i, field in enumerate(fields)` loop of _validate_schema from
\* entry i on (1-based here, i - 1 in the messages), with the local set
\* field_names.
schema_field_loop(self, file_path, object_name, fields, i, field_names) ==
    IF i > Len(fields)
    THEN Ok(self)
    ELSE
    LET field == fields[i]
        field_name == Get(field, "name", PyNone)
        s1 == IF field_name \in field_names
              THEN AddError(self, file_path, "duplicate_field",
                            <<"Duplicate field name: ">> \o Str(field_name))
              ELSE self
        s2 == IF Truthy(object_name)
              THEN [s1 EXCEPT !.schema_fields[object_name] = @ \cup {field_name}]
              ELSE s1
        field_type == Get(field, "type", PyNone)
        s3 == IF Truthy(field_type) /\ ~InList(field_type, valid_field_types)
              THEN AddWarning(s2, file_path, "unknown_field_type",
                              <<"Unknown field type: ">> \o Str(field_type))
              ELSE s2
        s4 == IF Truthy(field_type) /\ StartsWithPicklist(field_type)
                 /\ ~HasKey(field, "values")
              THEN AddError(s3, file_path, "missing_picklist_values",
                            <<"Picklist field ">> \o Str(field_name)
                                \o <<" missing 'values'">>)
              ELSE s3
    IN  IF ~IsDict(field)
        THEN schema_field_loop(
                 AddError(self, file_path, "invalid_field",
                          <<"Field ", ToString(i - 1), " must be an object">>),
                 file_path, object_name, fields, i + 1, field_names)
        ELSE IF ~Truthy(field_name)
        THEN schema_field_loop(
                 AddError(self, file_path, "missing_field_name",
                          <<"Field ", ToString(i - 1), " missing 'name'">>),
                 file_path, object_name, fields, i + 1, field_names)
        ELSE IF ~Hashable(field_name)
        THEN Raise(self)   \* field_name in field_names: TypeError
        ELSE IF Truthy(field_type) /\ ~IsStr(field_type)
        THEN Raise(s3)     \* field_type.startswith: AttributeError
        ELSE schema_field_loop(s4, file_path, object_name, fields, i + 1,
                               field_names \cup {field_name})

\* _validate_schema with line 229 lost: the field names are checked but never
\* added to the object's field set.
validate_schema_unregistered(self, file_path, data) ==
    LET s1 == check_required_fields(self, file_path, data,
                                    <<"object", "description", "fields">>)
        object_name == Get(data, "object", PyNone)
        s2 == IF Truthy(object_name)
              THEN [s1 EXCEPT !.schema_objects = @ \cup {object_name},
                              !.schema_fields = DictSet(@, object_name, {})]
              ELSE s1
        fields == Get(data, "fields", PyList(<<>>))
    IN  IF ~IsList(fields)
        THEN Ok(AddError(s2, file_path, "invalid_fields", <<"fields must be a list">>))
        ELSE schema_field_loop(s2, file_path, PyNone, fields.c, 1, {})

\* _validate_schema
validate_schema(self, file_path, data) ==
    LET s1 == check_required_fields(self, file_path, data,
                                    <<"object", "description", "fields">>)
        object_name == Get(data, "object", PyNone)
        s2 == IF Truthy(object_name)
              THEN [s1 EXCEPT !.schema_objects = @ \cup {object_name},
                              !.schema_fields = DictSet(@, object_name, {})]
              ELSE s1
        fields == Get(data, "fields", PyList(<<>>))
    IN  IF Truthy(object_name) /\ ~Hashable(object_name)
        THEN Raise(s1)   \* schema_objects.add(object_name): TypeError
        ELSE IF ~IsList(fields)
        THEN Ok(AddError(s2, file_path, "invalid_fields", <<"fields must be a list">>))
        ELSE schema_field_loop(s2, file_path, object_name, fields.c, 1, {})

valid_component_types ==
    <<<<"field_section">>, <<"related_list">>, <<"custom_component">>>>

RECURSIVE layout_component_loop(_, _, _, _)
\* The `for i, component in enumerate(components)` loop of _validate_layout.
layout_component_loop(self, file_path, components, i) ==
    IF i > Len(components)
    THEN self
    ELSE
    LET component == components[i]
        comp_type == Get(component, "type", PyNone)
    IN  IF ~IsDict(component)
        THEN layout_component_loop(
                 AddError(self, file_path, "invalid_component",
                          <<"Component ", ToString(i - 1), " must be an object">>),
                 file_path, components, i + 1)
        ELSE IF Truthy(comp_type) /\ ~InList(comp_type, valid_component_types)
        THEN layout_component_loop(
                 AddError(self, file_path, "invalid_component_type",
                          <<"Invalid component type: ">> \o Str(comp_type)),
                 file_path, components, i + 1)
        ELSE layout_component_loop(self, file_path, components, i + 1)

\* _validate_layout
validate_layout(self, file_path, data) ==
    LET s1 == check_required_fields(self, file_path, data, <<"name", "components">>)
        components == Get(data, "components", PyList(<<>>))
    IN  IF ~IsList(components)
        THEN Ok(AddError(s1, file_path, "invalid_components",
                         <<"components must be a list">>))
        ELSE Ok(layout_component_loop(s1, file_path, components.c, 1))

valid_trigger_types ==
    <<<<"database_event">>, <<"schedule">>, <<"webhook">>, <<"manual">>>>

\* _validate_automation
validate_automation(self, file_path, data) ==
    LET s1 == check_required_fields(self, file_path, data,
                                    <<"name", "description", "trigger", "action">>)
        trigger == Get(data, "trigger", PyDict(<<>>))
        trigger_type == Get(trigger, "type", PyNone)
        s2 == IF IsDict(trigger) /\ Truthy(trigger_type)
                 /\ ~InList(trigger_type, valid_trigger_types)
              THEN AddError(s1, file_path, "invalid_trigger_type",
                            <<"Invalid trigger type: ">> \o Str(trigger_type))
              ELSE s1
        action == Get(data, "action", PyDict(<<>>))
        s3 == IF IsDict(action) /\ ~HasKey(action, "ref")
              THEN AddError(s2, file_path, "missing_action_ref",
                            <<"Action must have 'ref' field">>)
              ELSE s2
    IN  Ok(s3)

\* _validate_integration
validate_integration(self, file_path, data) ==
    LET s1 == check_required_fields(self, file_path, data,
                                    <<"name", "service", "description">>)
        name == Get(data, "name", PyNone)
    IN  IF Truthy(name) /\ ~Hashable(name)
        THEN Raise(s1)   \* integration_names.add(name): TypeError
        ELSE IF Truthy(name)
        THEN Ok([s1 EXCEPT !.integration_names = @ \cup {name}])
        ELSE Ok(s1)

\* _validate_form
validate_form(self, file_path, data) ==
    LET s1 == check_required_fields(self, file_path, data,
                                    <<"name", "title", "target_object", "fields">>)
        fields == Get(data, "fields", PyList(<<>>))
    IN  IF ~IsList(fields)
        THEN Ok(AddError(s1, file_path, "invalid_fields", <<"fields must be a list">>))
        ELSE Ok(s1)

\* The unknown-type branch appending to self.errors with the default severity.
unknown_type_as_error(self, file_path, file_type) ==
    AddError(self, file_path, "unknown_type", <<"Unknown type: ">> \o Str(file_type))

\* The last branch of _validate_file's dispatch: a type that is none of the
\* six kinds gets a warning and no check.
unknown_type(self, file_path, file_type) ==
    AddWarning(self, file_path, "unknown_type", <<"Unknown type: ">> \o Str(file_type))

\* The type-specific branch of _validate_file (lines 130-146).
validate_by_type(self, file_path, data, file_type) ==
    IF StrEq(file_type, <<"action">>) THEN validate_action(self, file_path, data)
    ELSE IF StrEq(file_type, <<"schema">>) THEN validate_schema(self, file_path, data)
    ELSE IF StrEq(file_type, <<"layout">>) THEN validate_layout(self, file_path, data)
    ELSE IF StrEq(file_type, <<"automation">>)
    THEN validate_automation(self, file_path, data)
    ELSE IF StrEq(file_type, <<"integration">>)
    THEN validate_integration(self, file_path, data)
    ELSE IF StrEq(file_type, <<"form">>) THEN validate_form(self, file_path, data)
    ELSE Ok(unknown_type(self, file_path, file_type))

\* _validate_file from line 113 on, for the value safe_load returned: the
\* shape and type checks, the per-type validator, and the handler that turns
\* any exception into a file_error. What a validator changed before it raised
\* stays changed.
validate_loaded(self, file_path, data) ==
    LET s1 == [self EXCEPT !.all_files = Append(@, file_path)]
        file_type == Get(data, "type", PyNone)
        r == validate_by_type(s1, file_path, data, file_type)
    IN  IF ~IsDict(data)
        THEN AddError(self, file_path, "invalid_format",
                      <<"File must contain a YAML object">>)
        ELSE IF ~Truthy(file_type)
        THEN AddError(s1, file_path, "missing_type", <<"Missing required 'type' field">>)
        ELSE IF r.exc
        THEN AddError(r.v, file_path, "file_error", <<"Error reading file: ">>)
        ELSE r.v

\* _validate_file without the `return` of line 111: after the yaml_syntax
\* error the call goes on to line 113, where `data` is unbound, and the
\* handler of line 148 adds a file_error.
validate_file_no_return(self, file_path, file) ==
    IF ~file.readable
    THEN AddError(self, file_path, "file_error", <<"Error reading file: ">>)
    ELSE IF ~file.parses
    THEN AddError(AddError(self, file_path, "yaml_syntax", <<"YAML syntax error: ">>),
                  file_path, "file_error", <<"Error reading file: ">>)
    ELSE validate_loaded(self, file_path, file.tree)

\* _validate_file on a file [readable, parses, tree]: open/read (a failure is
\* a file_error), yaml.safe_load (a failure is a yaml_syntax error and the
\* end of the call), then the checks of the loaded value.
validate_file(self, file_path, file) ==
    IF ~file.readable
    THEN AddError(self, file_path, "file_error", <<"Error reading file: ">>)
    ELSE IF ~file.parses
    THEN AddError(self, file_path, "yaml_syntax", <<"YAML syntax error: ">>)
    ELSE validate_loaded(self, file_path, file.tree)

\* -------------------------------------------------------- cross-file stage
\* Nothing in this stage catches an exception: a raise ends validate_all.

\* _validate_automation_references
validate_automation_references(self, file_path, data) ==
    LET action == Get(data, "action", PyDict(<<>>))
        ref == Get(action, "ref", PyNone)
    IN  IF ~IsDict(action) \/ ~Truthy(ref)
        THEN Ok(self)
        ELSE IF ~Hashable(ref)
        THEN Raise(self)   \* ref not in action_names: TypeError
        ELSE IF ref \notin self.action_names
        THEN Ok(AddError(self, file_path, "missing_action_reference",
                         <<"Action not found: ">> \o Str(ref)))
        ELSE Ok(self)

\* _validate_field_reference with `obj not in ... or` for `obj in ... and`: a
\* reference into an object that is not registered is reported too.
validate_field_reference_strict(self, file_path, object_name, field_name) ==
    IF DotInRaises(field_name)
    THEN Raise(self)
    ELSE IF DotIn(field_name)
    THEN IF ~IsStr(field_name)
         THEN Raise(self)
         ELSE LET obj == SplitDot(field_name.s)[1]
                  field == SplitDot(field_name.s)[2]
              IN  IF obj \notin DOMAIN self.schema_fields
                     \/ field \notin self.schema_fields[obj]
                  THEN Ok(AddError(self, file_path, "missing_field_reference",
                                   <<"Field not found: ">> \o Str(obj) \o <<".">>
                                       \o Str(field)))
                  ELSE Ok(self)
    ELSE IF ~Hashable(object_name) \/ ~Hashable(field_name)
    THEN Raise(self)
    ELSE IF object_name \notin DOMAIN self.schema_fields
            \/ field_name \notin self.schema_fields[object_name]
    THEN Ok(AddError(self, file_path, "missing_field_reference",
                     <<"Field not found: ">> \o Str(object_name) \o <<".">>
                         \o Str(field_name)))
    ELSE Ok(self)

\* _validate_field_reference
validate_field_reference(self, file_path, object_name, field_name) ==
    IF DotInRaises(field_name)
    THEN Raise(self)       \* '.' in field_name: TypeError
    ELSE IF DotIn(field_name)
    THEN IF ~IsStr(field_name)
         THEN Raise(self)  \* field_name.split: AttributeError
         ELSE LET obj == SplitDot(field_name.s)[1]
                  field == SplitDot(field_name.s)[2]
              IN  IF obj \in DOMAIN self.schema_fields
                     /\ field \notin self.schema_fields[obj]
                  THEN Ok(AddError(self, file_path, "missing_field_reference",
                                   <<"Field not found: ">> \o Str(obj) \o <<".">>
                                       \o Str(field)))
                  ELSE Ok(self)
    ELSE IF ~Hashable(object_name)
    THEN Raise(self)       \* object_name in schema_fields: TypeError
    ELSE IF object_name \notin DOMAIN self.schema_fields
    THEN Ok(self)
    ELSE IF ~Hashable(field_name)
    THEN Raise(self)       \* field_name not in schema_fields[...]: TypeError
    ELSE IF field_name \notin self.schema_fields[object_name]
    THEN Ok(AddError(self, file_path, "missing_field_reference",
                     <<"Field not found: ">> \o Str(object_name) \o <<".">>
                         \o Str(field_name)))
    ELSE Ok(self)

RECURSIVE layout_field_loop(_, _, _, _, _)
\* The `for field in fields` loop of _validate_layout_references.
layout_field_loop(self, file_path, layout_name, fields, i) ==
    IF i > Len(fields)
    THEN Ok(self)
    ELSE
    LET field == fields[i]
        r == IF IsStr(field)
             THEN validate_field_reference(self, file_path, layout_name, field)
             ELSE IF IsDict(field) /\ HasKey(field, "name")
             THEN validate_field_reference(self, file_path, layout_name,
                                           Get(field, "name", PyNone))
             ELSE Ok(self)
    IN  IF r.exc
        THEN r
        ELSE layout_field_loop(r.v, file_path, layout_name, fields, i + 1)

RECURSIVE layout_reference_loop(_, _, _, _, _)
\* The `for component in components` loop of _validate_layout_references.
layout_reference_loop(self, file_path, layout_name, components, i) ==
    IF i > Len(components)
    THEN Ok(self)
    ELSE
    LET component == components[i]
        fields == Get(component, "fields", PyList(<<>>))
        r == IF ~IsDict(component)
             THEN Ok(self)
             ELSE IF ~Iterable(fields)
             THEN Raise(self)   \* for field in fields: TypeError
             ELSE layout_field_loop(self, file_path, layout_name,
                                    IterItems(fields), 1)
    IN  IF r.exc
        THEN r
        ELSE layout_reference_loop(r.v, file_path, layout_name, components, i + 1)

\* _validate_layout_references
validate_layout_references(self, file_path, data) ==
    LET layout_name == Get(data, "name", PyNone)
        s1 == IF Truthy(layout_name) /\ layout_name \notin self.schema_objects
              THEN AddWarning(self, file_path, "missing_schema_reference",
                              <<"Schema not found for layout: ">> \o Str(layout_name))
              ELSE self
        components == Get(data, "components", PyList(<<>>))
    IN  IF Truthy(layout_name) /\ ~Hashable(layout_name)
        THEN Raise(self)   \* layout_name not in schema_objects: TypeError
        ELSE IF ~Iterable(components)
        THEN Raise(s1)     \* for component in components: TypeError
        ELSE layout_reference_loop(s1, file_path, layout_name,
                                   IterItems(components), 1)

RECURSIVE form_field_loop(_, _, _, _)
\* The `for field in fields` loop of _validate_form_references.
form_field_loop(self, file_path, fields, i) ==
    IF i > Len(fields)
    THEN Ok(self)
    ELSE
    LET field == fields[i]
        maps_to == Get(field, "maps_to", PyNone)
        obj == SplitDot(maps_to.s)[1]
        field_name == SplitDot(maps_to.s)[2]
    IN  IF ~(IsDict(field) /\ HasKey(field, "maps_to"))
        THEN form_field_loop(self, file_path, fields, i + 1)
        ELSE IF DotInRaises(maps_to)
        THEN Raise(self)   \* '.' in maps_to: TypeError
        ELSE IF ~DotIn(maps_to)
        THEN form_field_loop(self, file_path, fields, i + 1)
        ELSE IF ~IsStr(maps_to)
        THEN Raise(self)   \* maps_to.split: AttributeError
        ELSE IF obj \in DOMAIN self.schema_fields
                /\ field_name \notin self.schema_fields[obj]
        THEN form_field_loop(
                 AddError(self, file_path, "missing_field_reference",
                          <<"Field not found: ">> \o Str(maps_to)),
                 file_path, fields, i + 1)
        ELSE form_field_loop(self, file_path, fields, i + 1)

\* _validate_form_references
validate_form_references(self, file_path, data) ==
    LET target_object == Get(data, "target_object", PyNone)
        s1 == IF Truthy(target_object) /\ target_object \notin self.schema_objects
              THEN AddError(self, file_path, "missing_schema_reference",
                            <<"Target object not found: ">> \o Str(target_object))
              ELSE self
        fields == Get(data, "fields", PyList(<<>>))
    IN  IF Truthy(target_object) /\ ~Hashable(target_object)
        THEN Raise(self)   \* target_object not in schema_objects: TypeError
        ELSE IF ~Iterable(fields)
        THEN Raise(s1)     \* for field in fields: TypeError
        ELSE form_field_loop(s1, file_path, IterItems(fields), 1)

\* _validate_integration_references
validate_integration_references(self, file_path, data) ==
    LET defaults == Get(data, "defaults", PyDict(<<>>))
        integration == Get(defaults, "integration", PyNone)
    IN  IF ~IsDict(defaults)
        THEN Raise(self)   \* defaults.get: AttributeError
        ELSE IF ~Truthy(integration)
        THEN Ok(self)
        ELSE IF ~Hashable(integration)
        THEN Raise(self)   \* integration not in integration_names: TypeError
        ELSE IF integration \notin self.integration_names
        THEN Ok(AddError(self, file_path, "missing_integration_reference",
                         <<"Integration not found: ">> \o Str(integration)))
        ELSE Ok(self)

\* The body of the loop of _validate_cross_file_references for one retained
\* document.
cross_file_references(self, file_path, data) ==
    LET file_type == Get(data, "type", PyNone)
    IN  IF StrEq(file_type, <<"automation">>)
        THEN validate_automation_references(self, file_path, data)
        ELSE IF StrEq(file_type, <<"layout">>)
        THEN validate_layout_references(self, file_path, data)
        ELSE IF StrEq(file_type, <<"form">>)
        THEN validate_form_references(self, file_path, data)
        ELSE IF StrEq(file_type, <<"action">>)
                /\ StrEq(Get(data, "implementation", PyNone), <<"integration_call">>)
        THEN validate_integration_references(self, file_path, data)
        ELSE Ok(self)

\* ------------------------------------------------------------- the project
\* The .ps files a project may hold. A file is [readable, parses, tree]:
\* whether open/read succeeds, whether yaml.safe_load accepts the text, and
\* the value safe_load returns.

Parsed(tree) == [readable |-> TRUE, parses |-> TRUE, tree |-> tree]

Doc(type, pairs) == Parsed(PyDict(<<<<"type", W(type)>>>> \o pairs))

Text == W("text")

FieldEntry(name, type) == PyDict(<<<<"name", W(name)>>, <<"type", type>>>>)

TriggerOf(type) == PyDict(<<<<"type", W(type)>>, <<"on", W("record_created")>>>>)

ActionValid ==
    Doc("action", <<<<"name", W("a1")>>, <<"description", Text>>,
                    <<"implementation", W("python")>>,
                    <<"tags", PyList(<<W("test"), W("ai")>>)>>,
                    <<"input_schema", PyDict(<<>>)>>>>)

\* test_validation.py invalid_action.ps: no description, no implementation.
ActionInvalid ==
    Doc("action", <<<<"name", W("a2")>>, <<"enabled", PyInt(1)>>,
                    <<"input_schema", PyDict(<<>>)>>, <<"tags", PyStr(<<>>)>>>>)

\* test_validation.py valid_action.ps declares implementation llm.
ActionLlm ==
    Doc("action", <<<<"name", W("a1")>>, <<"description", Text>>,
                    <<"implementation", W("llm")>>, <<"tags", W("ai")>>,
                    <<"output_schema", PyList(<<>>)>>>>)

ActionIntegration ==
    Doc("action", <<<<"name", W("a3")>>, <<"description", Text>>,
                    <<"implementation", W("integration_call")>>,
                    <<"defaults", PyDict(<<<<"integration", W("i1")>>>>)>>>>)

ActionDefaultsText ==
    Doc("action", <<<<"name", W("a4")>>, <<"description", Text>>,
                    <<"implementation", W("integration_call")>>,
                    <<"defaults", Text>>>>)

SchemaContact ==
    Doc("schema", <<<<"object", W("o1")>>, <<"description", Text>>,
                    <<"fields", PyList(<<
                        FieldEntry("f1", W("string")),
                        FieldEntry("f2", PyStr(<<"picklist", ".", "excl">>)),
                        PyDict(<<<<"name", W("f1")>>>>),
                        W("f4"),
                        PyDict(<<<<"type", W("email")>>>>)>>)>>>>)

SchemaContactAgain ==
    Doc("schema", <<<<"object", W("o1")>>, <<"description", Text>>,
                    <<"fields", PyList(<<FieldEntry("f3", W("weird"))>>)>>>>)

SchemaIntType ==
    Doc("schema", <<<<"object", W("o2")>>, <<"description", Text>>,
                    <<"fields", PyList(<<FieldEntry("f1", PyInt(5)),
                                         PyDict(<<<<"name", W("f2")>>>>)>>)>>>>)

SchemaFieldsNull ==
    Doc("schema", <<<<"object", W("o1")>>, <<"fields", PyNone>>>>)

LayoutContact ==
    Doc("layout", <<<<"name", W("o1")>>,
                    <<"components", PyList(<<
                        PyDict(<<<<"type", W("field_section")>>,
                                 <<"fields", PyList(<<
                                     W("f1"),
                                     PyDict(<<<<"name", W("f3")>>>>),
                                     PyStr(<<"o1", ".", "f9">>),
                                     PyStr(<<"o2", ".", "f2">>),
                                     PyStr(<<"zz", ".", "f1">>)>>)>>>>)>>)>>>>)

LayoutComponentsNull ==
    Doc("layout", <<<<"name", W("o1")>>, <<"components", PyNone>>>>)

LayoutFieldsInt ==
    Doc("layout", <<<<"name", W("zz")>>,
                    <<"components", PyList(<<
                        W("spacer"),
                        PyDict(<<<<"type", W("related_list")>>,
                                 <<"fields", PyInt(5)>>>>)>>)>>>>)

\* test_validation.py valid_layout.ps: named after the schema object, listing
\* two of its fields.
LayoutValid ==
    Doc("layout", <<<<"name", W("o1")>>, <<"description", Text>>,
                    <<"components", PyList(<<
                        PyDict(<<<<"type", W("field_section")>>,
                                 <<"fields", PyList(<<W("f1"), W("f2")>>)>>>>)>>)>>>>)

AutomationValid ==
    Doc("automation", <<<<"name", W("n1")>>, <<"description", Text>>,
                        <<"trigger", TriggerOf("database_event")>>,
                        <<"action", PyDict(<<<<"ref", W("a1")>>,
                                             <<"with", PyDict(<<>>)>>>>)>>>>)

AutomationGhost ==
    Doc("automation", <<<<"name", W("n2")>>, <<"description", Text>>,
                        <<"trigger", TriggerOf("bogus")>>,
                        <<"action", PyDict(<<<<"ref", W("ghost")>>>>)>>>>)

AutomationNoRef ==
    Doc("automation", <<<<"name", W("n3")>>, <<"description", Text>>,
                        <<"trigger", Text>>,
                        <<"action", PyDict(<<<<"with", PyDict(<<>>)>>>>)>>>>)

AutomationNoAction ==
    Doc("automation", <<<<"name", W("n4")>>, <<"description", Text>>,
                        <<"trigger", TriggerOf("manual")>>>>)

IntegrationValid ==
    Doc("integration", <<<<"name", W("i1")>>, <<"service", Text>>,
                         <<"description", Text>>>>)

FormContact ==
    Doc("form", <<<<"name", W("n5")>>, <<"title", Text>>,
                  <<"target_object", W("o1")>>,
                  <<"fields", PyList(<<
                      PyDict(<<<<"maps_to", PyStr(<<"o1", ".", "f9">>)>>>>),
                      PyDict(<<<<"maps_to", W("f1")>>>>),
                      PyDict(<<<<"label", Text>>>>)>>)>>>>)

FormFieldsNull ==
    Doc("form", <<<<"name", W("n6")>>, <<"title", Text>>,
                  <<"target_object", W("zz")>>, <<"fields", PyNone>>>>)

FormMapsToInt ==
    Doc("form", <<<<"name", W("n7")>>, <<"title", Text>>,
                  <<"target_object", W("o1")>>,
                  <<"fields", PyList(<<PyDict(<<<<"maps_to", PyInt(5)>>>>)>>)>>>>)

UnknownType == Doc("widget", <<<<"name", W("a1")>>, <<"object", W("o1")>>>>)

EmptyType ==
    Parsed(PyDict(<<<<"type", PyStr(<<>>)>>, <<"name", W("a1")>>>>))

NoType == Parsed(PyDict(<<<<"name", W("a1")>>, <<"object", W("o1")>>>>))

\* test_validation.py yaml_error.ps: text the parser rejects.
YamlError == [readable |-> TRUE, parses |-> FALSE, tree |-> PyNone]

NotMapping == Parsed(PyList(<<W("a1")>>))

Unreadable == [readable |-> FALSE, parses |-> FALSE, tree |-> PyNone]

DocList ==
    <<ActionValid, ActionInvalid, ActionLlm, ActionIntegration, ActionDefaultsText,
      SchemaContact, SchemaContactAgain, SchemaIntType, SchemaFieldsNull,
      LayoutContact, LayoutComponentsNull, LayoutFieldsInt,
      AutomationValid, AutomationGhost, AutomationNoRef, AutomationNoAction,
      IntegrationValid, FormContact, FormFieldsNull, FormMapsToInt,
      UnknownType, EmptyType, NoType, YamlError, NotMapping, Unreadable,
      LayoutValid>>

\* The largest number of .ps files in the project.
MaxFiles == 2

\* ------------------------------------------------------- the state machine

VARIABLES
    files,            \* the project: files[p] indexes DocList; p is the path,
                      \* and 1..Len(files) the order rglob yields the files in
    syntax_only,      \* validate_all's flags in this run
    cross_file_only,
    self,             \* the PlayScriptValidator of this run
    pc,               \* where validate_all is
    idx,              \* the position of the running loop
    result,           \* what validate_all returned
    exit_status,      \* the process's exit status, -1 while it runs
    run,              \* 1: the first invocation; 2: a full run over the same project
    prev              \* how the first invocation ended

vars == <<files, syntax_only, cross_file_only, self, pc, idx, result,
          exit_status, run, prev>>

File(file_path) == DocList[files[file_path]]

\* all_files[file_path]: the tree stored at line 120 is the one safe_load
\* returned, and nothing changes it.
Data(file_path) == File(file_path).tree

NoRun ==
    [errors |-> <<>>, warnings |-> <<>>, pc |-> "none", result |-> "none",
     exit_status |-> -1, syntax_only |-> FALSE, cross_file_only |-> FALSE]

Init ==
    /\ files \in UNION {[1..len -> 1..Len(DocList)] : len \in 0..MaxFiles}
    /\ syntax_only \in BOOLEAN
    /\ cross_file_only \in BOOLEAN
    /\ self = NewValidator
    /\ pc = "start"
    /\ idx = 1
    /\ result = "none"
    /\ exit_status = -1
    /\ run = 1
    /\ prev = NoRun

\* validate_all without the test of line 72: the cross-file stage always runs.
AfterSyntaxAlwaysCross == "cross"

\* Where validate_all goes once the syntax stage is over or skipped.
AfterSyntax == IF ~syntax_only THEN "cross" ELSE "report"

\* validate_all, lines 63-70: the header, and the choice of the first stage.
ValidateAll ==
    /\ pc = "start"
    /\ pc' = IF ~cross_file_only THEN "syntax" ELSE AfterSyntax
    /\ idx' = 1
    /\ UNCHANGED <<files, syntax_only, cross_file_only, self, result,
                   exit_status, run, prev>>

\* _validate_syntax with no target (the whole project, lines 93-96): one
\* _validate_file per file rglob yields.
ValidateFile ==
    /\ pc = "syntax"
    /\ idx <= Len(files)
    /\ self' = validate_file(self, idx, File(idx))
    /\ idx' = idx + 1
    /\ UNCHANGED <<files, syntax_only, cross_file_only, pc, result,
                   exit_status, run, prev>>

\* _validate_syntax returns; validate_all, lines 72-73.
SyntaxDone ==
    /\ pc = "syntax"
    /\ idx > Len(files)
    /\ pc' = AfterSyntax
    /\ idx' = 1
    /\ UNCHANGED <<files, syntax_only, cross_file_only, self, result,
                   exit_status, run, prev>>

\* One iteration of the loop of _validate_cross_file_references. An exception
\* leaves validate_all and main: the interpreter prints the traceback and
\* exits with status 1.
CrossFile ==
    /\ pc = "cross"
    /\ idx <= Len(self.all_files)
    /\ LET file_path == self.all_files[idx]
           r == cross_file_references(self, file_path, Data(file_path))
       IN  /\ self' = r.v
           /\ pc' = IF r.exc THEN "crashed" ELSE "cross"
           /\ exit_status' = IF r.exc THEN 1 ELSE exit_status
    /\ idx' = idx + 1
    /\ UNCHANGED <<files, syntax_only, cross_file_only, result, run, prev>>

\* _validate_cross_file_references returns.
CrossDone ==
    /\ pc = "cross"
    /\ idx > Len(self.all_files)
    /\ pc' = "report"
    /\ UNCHANGED <<files, syntax_only, cross_file_only, self, idx, result,
                   exit_status, run, prev>>

\* validate_all's return value, len(self.errors) == 0.
Verdict(v) == IF Len(v.errors) = 0 THEN "True" ELSE "False"

\* validate_all, lines 75-76, and main's sys.exit(0 if success else 1).
PrintResults ==
    /\ pc = "report"
    /\ result' = Verdict(self)
    /\ exit_status' = IF result' = "True" THEN 0 ELSE 1
    /\ pc' = "done"
    /\ UNCHANGED <<files, syntax_only, cross_file_only, self, idx, run, prev>>

\* The second run on the validator of the first: its lists and tables are
\* not built anew.
NextRunSameValidator ==
    /\ run = 1
    /\ pc \in {"done", "crashed"}
    /\ prev' = [errors |-> self.errors, warnings |-> self.warnings, pc |-> pc,
                result |-> result, exit_status |-> exit_status,
                syntax_only |-> syntax_only, cross_file_only |-> cross_file_only]
    /\ syntax_only' = FALSE
    /\ cross_file_only' = FALSE
    /\ pc' = "start"
    /\ idx' = 1
    /\ result' = "none"
    /\ exit_status' = -1
    /\ run' = 2
    /\ UNCHANGED <<files, self>>

\* The tool is invoked again on the unchanged project, for a full run on a
\* new validator (test_validation.py builds one validator per run).
NextRun ==
    /\ run = 1
    /\ pc \in {"done", "crashed"}
    /\ prev' = [errors |-> self.errors, warnings |-> self.warnings, pc |-> pc,
                result |-> result, exit_status |-> exit_status,
                syntax_only |-> syntax_only, cross_file_only |-> cross_file_only]
    /\ self' = NewValidator
    /\ syntax_only' = FALSE
    /\ cross_file_only' = FALSE
    /\ pc' = "start"
    /\ idx' = 1
    /\ result' = "none"
    /\ exit_status' = -1
    /\ run' = 2
    /\ UNCHANGED files

Next ==
    \/ ValidateAll
    \/ ValidateFile
    \/ SyntaxDone
    \/ CrossFile
    \/ CrossDone
    \/ PrintResults
    \/ NextRun

Spec == Init /\ [][Next]_vars

\* ------------------------------------------------- vocabulary of the claims

\* The file at path p was read, parsed, and holds a mapping: a loaded document.
Loaded(p) == File(p).readable /\ File(p).parses /\ IsDict(Data(p))

\* A loaded document of the given kind.
Kind(p, kind) == Loaded(p) /\ StrEq(Get(Data(p), "type", PyNone), <<kind>>)

Paths == 1..Len(files)

\* The paths the validator retains in all_files.
Retained == {self.all_files[q] : q \in 1..Len(self.all_files)}

\* How many diagnostics of a list are about path p.
CountFor(list, p) == Cardinality({q \in 1..Len(list) : list[q].file_path = p})

\* How many of them have the given category.
Count(list, p, error_type) ==
    Cardinality({q \in 1..Len(list) :
        list[q].file_path = p /\ list[q].error_type = error_type})

Ended == pc \in {"done", "crashed"}

FullRun == ~syntax_only /\ ~cross_file_only

\* The syntax stage ran in this run and is over.
SyntaxStageOver == ~cross_file_only /\ pc \in {"cross", "report", "done", "crashed"}

\* An automation document whose action is a mapping with a non-empty ref.
HasActionRef(p) ==
    /\ Kind(p, "automation")
    /\ HasKey(Data(p), "action")
    /\ IsDict(Get(Data(p), "action", PyNone))
    /\ Truthy(Get(Get(Data(p), "action", PyNone), "ref", PyNone))

RefOf(p) == Get(Get(Data(p), "action", PyNone), "ref", PyNone)

\* Some loaded action document of the project declares this name.
ActionDeclared(name) ==
    \E q \in Paths : Kind(q, "action") /\ Get(Data(q), "name", PyNone) = name

\* --------------------------------------------------------------------- C1
\* C1: at the end of a full run, an automation whose action.ref names a
\* declared action has no missing_action_reference error, whatever the order
\* of the two files, and one whose ref names no declared action has exactly
\* one.
C1_ActionReferenceDiagnosed ==
    (Ended /\ FullRun) =>
        \A p \in Paths : HasActionRef(p) =>
            Count(self.errors, p, "missing_action_reference")
                = IF ActionDeclared(RefOf(p)) THEN 0 ELSE 1

\* The same in the runs that reach the report: it holds there, so C1 fails
\* only where the cross-file stage raises (C3).
ActionReferenceDiagnosedWhenReported ==
    (pc = "done" /\ FullRun) =>
        \A p \in Paths : HasActionRef(p) =>
            Count(self.errors, p, "missing_action_reference")
                = IF ActionDeclared(RefOf(p)) THEN 0 ELSE 1

\* --------------------------------------------------------------------- C2
\* C2: at the end of a cross-file-only run every loadable document is
\* retained, and every automation whose action.ref names no declared action
\* has a missing_action_reference error.
C2_CrossFileOnlyResolves ==
    (Ended /\ cross_file_only /\ ~syntax_only) =>
        /\ \A p \in Paths : Loaded(p) => p \in Retained
        /\ \A p \in Paths : (HasActionRef(p) /\ ~ActionDeclared(RefOf(p))) =>
               Count(self.errors, p, "missing_action_reference") >= 1

\* --------------------------------------------------------------------- C3
\* C3: no exception escapes validate_all: a run never ends anywhere but at
\* the report.
C3_NoExceptionEscapes == pc # "crashed"

\* --------------------------------------------------------------------- C5
\* C5: a run ends with success and exit status 0 exactly when its errors
\* list is empty, whatever its warnings list holds.
C5_SuccessIffNoErrors ==
    Ended => ((result = "True" /\ exit_status = 0) <=> (Len(self.errors) = 0))

\* The same in the runs that reach the report: it holds there, so C5 fails
\* only where the cross-file stage raises (C3).
SuccessIffNoErrorsWhenReported ==
    (pc = "done") => ((result = "True" /\ exit_status = 0) <=> (Len(self.errors) = 0))

\* --------------------------------------------------------------------- C4

SchemaObject(p) == Get(Data(p), "object", PyNone)

\* A loaded schema document with an object name and a fields list.
DeclaresFields(p) ==
    /\ Kind(p, "schema")
    /\ IsStr(SchemaObject(p)) /\ Truthy(SchemaObject(p))
    /\ IsList(Get(Data(p), "fields", PyNone))

Entries(p) == Get(Data(p), "fields", PyNone).c

EntryName(e) == IF IsDict(e) THEN Get(e, "name", PyNone) ELSE PyNone

\* A field entry that carries a field name.
NamedEntry(e) == IsDict(e) /\ Truthy(EntryName(e))

\* The field name of entry m of document p is in the field set registered
\* for the document's object.
EntryRegistered(p, m) ==
    /\ SchemaObject(p) \in DOMAIN self.schema_fields
    /\ EntryName(Entries(p)[m]) \in self.schema_fields[SchemaObject(p)]

LastDeclaring(p) ==
    \A q \in Paths :
        (q > p /\ Kind(q, "schema")) => SchemaObject(q) # SchemaObject(p)

\* The check of the document ends at this entry with a file_error: the
\* entry's type is set and is no string.
EntryAborts(e) ==
    /\ NamedEntry(e)
    /\ Truthy(Get(e, "type", PyNone)) /\ ~IsStr(Get(e, "type", PyNone))

\* The syntax stage got to entry m of document p and to its name.
EntryReached(p, m) ==
    /\ \A k \in 1..(m - 1) :
           ~EntryAborts(Entries(p)[k]) /\ Hashable(EntryName(Entries(p)[k]))
    /\ Hashable(EntryName(Entries(p)[m]))

Rejected(p) == File(p).readable /\ ~File(p).parses

\* The syntax stage of this run has processed file p.
SyntaxProcessed(p) ==
    /\ ~cross_file_only
    /\ (pc = "syntax" /\ idx > p) \/ pc \in {"cross", "report", "done", "crashed"}

\* In every state: a rejected file is not retained, and the only diagnostic
\* about it in either list is one yaml_syntax error, there once the syntax
\* stage has processed the file.
RejectedFileState ==
    \A p \in Paths : Rejected(p) =>
        /\ p \notin Retained
        /\ Count(self.errors, p, "yaml_syntax") = IF SyntaxProcessed(p) THEN 1 ELSE 0
        /\ CountFor(self.errors, p) = Count(self.errors, p, "yaml_syntax")
        /\ CountFor(self.warnings, p) = 0

\* The step that processes a rejected file appends one yaml_syntax error
\* about it and changes nothing else of the validator.
RejectedFileStep ==
    (pc = "syntax" /\ idx <= Len(files) /\ Rejected(idx)) =>
        /\ Len(self'.errors) = Len(self.errors) + 1
        /\ SubSeq(self'.errors, 1, Len(self.errors)) = self.errors
        /\ self'.errors[Len(self'.errors)].file_path = idx
        /\ self'.errors[Len(self'.errors)].error_type = "yaml_syntax"
        /\ self'.errors[Len(self'.errors)].severity = "error"
        /\ self'.warnings = self.warnings
        /\ self'.all_files = self.all_files
        /\ self'.schema_objects = self.schema_objects
        /\ self'.schema_fields = self.schema_fields
        /\ self'.action_names = self.action_names
        /\ self'.integration_names = self.integration_names

\* C6: a file the parser rejects gets exactly one yaml_syntax error and
\* changes nothing else: it is not retained, the four symbol-table structures
\* stay as they were, and the cross-file stage records nothing about it.
C6_RejectedFileOnlyYamlSyntax == []RejectedFileState /\ [][RejectedFileStep]_vars

\* A full run over a rejected file and a retained document has ended with
\* the one yaml_syntax error.
C6_Witness ==
    /\ pc = "done" /\ FullRun
    /\ self.all_files # <<>>
    /\ \E p \in Paths : Rejected(p) /\ Count(self.errors, p, "yaml_syntax") = 1

\* --------------------------------------------------------------------- C7

ResolutionCategories ==
    {"missing_action_reference", "missing_schema_reference",
     "missing_field_reference", "missing_integration_reference"}

NoResolutionDiagnostic(list) ==
    \A q \in 1..Len(list) : list[q].error_type \notin ResolutionCategories

IsSyntaxDiagnostic(d) == d.error_type \notin ResolutionCategories

\* The first invocation was in syntax-only mode: syntax_only alone.
PrevSyntaxOnly == run = 2 /\ prev.syntax_only /\ ~prev.cross_file_only

\* C7: a syntax-only run (syntax_only set, cross_file_only not) never records
\* a diagnostic of a resolution category and never raises, and what it has
\* recorded at its end is, list by list and in order, what a full run over the
\* same files records outside the resolution categories.
C7_SyntaxOnlySkipsResolution ==
    /\ (syntax_only /\ ~cross_file_only) =>
           /\ NoResolutionDiagnostic(self.errors)
           /\ NoResolutionDiagnostic(self.warnings)
           /\ pc \notin {"cross", "crashed"}
    /\ (PrevSyntaxOnly /\ Ended) =>
           /\ prev.errors = SelectSeq(self.errors, IsSyntaxDiagnostic)
           /\ prev.warnings = SelectSeq(self.warnings, IsSyntaxDiagnostic)

\* A syntax-only run recorded a syntax error and the full run over the same
\* files recorded that and a resolution diagnostic.
C7_Witness ==
    /\ PrevSyntaxOnly /\ Ended
    /\ prev.errors # <<>>
    /\ Len(self.errors) > Len(prev.errors)

\* --------------------------------------------------------------------- C8

RecognizedKinds ==
    {<<"action">>, <<"schema">>, <<"layout">>, <<"automation">>,
     <<"integration">>, <<"form">>}

TypeValue(p) == Get(Data(p), "type", PyNone)

\* A loaded document with a type value that is none of the six kinds.
TypeNotRecognized(p) ==
    /\ Loaded(p) /\ HasKey(Data(p), "type")
    /\ ~(IsStr(TypeValue(p)) /\ TypeValue(p).s \in RecognizedKinds)

\* The only diagnostic about document p is one unknown_type warning.
OnlyUnknownTypeWarning(p) ==
    /\ Count(self.warnings, p, "unknown_type") = 1
    /\ CountFor(self.warnings, p) = 1
    /\ \A q \in 1..Len(self.warnings) :
           self.warnings[q].file_path = p => self.warnings[q].severity = "warning"
    /\ CountFor(self.errors, p) = 0

\* C8 as stated: in a full run, from the step that processes it to the end
\* of the run, every loaded document whose type value is none of the six kinds
\* has exactly one unknown_type warning and no other diagnostic.
C8_UnknownTypeOneWarning ==
    FullRun =>
        \A p \in Paths : (TypeNotRecognized(p) /\ SyntaxProcessed(p))
            => OnlyUnknownTypeWarning(p)

\* The step that processes such a document registers no name.
UnknownTypeStep ==
    (pc = "syntax" /\ idx <= Len(files) /\ TypeNotRecognized(idx)
        /\ Truthy(TypeValue(idx))) =>
        /\ self'.schema_objects = self.schema_objects
        /\ self'.schema_fields = self.schema_fields
        /\ self'.action_names = self.action_names
        /\ self'.integration_names = self.integration_names

UnknownTypeState ==
    FullRun =>
        \A p \in Paths :
            (TypeNotRecognized(p) /\ Truthy(TypeValue(p)) /\ SyntaxProcessed(p))
                => OnlyUnknownTypeWarning(p)

\* C8 amended: every loaded document whose type value is non-empty (truthy)
\* and none of the six kinds has, in a full run from the step that processes
\* it to the end of the run, exactly one unknown_type warning and no other
\* diagnostic, and the step that processes it registers no name in the symbol
\* table.
C8_TruthyUnknownTypeOneWarning == []UnknownTypeState /\ [][UnknownTypeStep]_vars

\* A full run has ended over a document of an unknown kind and its warning.
C8_Witness ==
    /\ Ended /\ FullRun
    /\ \E p \in Paths :
           /\ TypeNotRecognized(p) /\ Truthy(TypeValue(p))
           /\ Count(self.warnings, p, "unknown_type") = 1

\* --------------------------------------------------------------------- C9

\* The required fields of each kind (spec 4.2).
RequiredFields(kind) ==
    CASE kind = "action" -> {"name", "description", "implementation"}
      [] kind = "schema" -> {"object", "description", "fields"}
      [] kind = "layout" -> {"name", "components"}
      [] kind = "automation" -> {"name", "description", "trigger", "action"}
      [] kind = "integration" -> {"name", "service", "description"}
      [] kind = "form" -> {"name", "title", "target_object", "fields"}

KindNames == {"action", "schema", "layout", "automation", "integration", "form"}

\* How many missing_required_field errors about p name the field.
CountMissing(p, field) ==
    Cardinality({q \in 1..Len(self.errors) :
        /\ self.errors[q].file_path = p
        /\ self.errors[q].error_type = "missing_required_field"
        /\ self.errors[q].severity = "error"
        /\ self.errors[q].message = <<"Missing required field: ", field>>})

AbsentRequired(p, kind) == {f \in RequiredFields(kind) : ~HasKey(Data(p), f)}

\* C9: for every document of a recognized kind that the syntax stage has
\* processed, each required field of the kind that the document lacks has
\* exactly one missing_required_field error, each one it has has none, and
\* the document has no other missing_required_field error.
C9_OneErrorPerMissingField ==
    \A p \in Retained : \A kind \in KindNames : Kind(p, kind) =>
        /\ \A f \in RequiredFields(kind) :
               CountMissing(p, f) = IF HasKey(Data(p), f) THEN 0 ELSE 1
        /\ Count(self.errors, p, "missing_required_field")
               = Cardinality(AbsentRequired(p, kind))

\* An action document lacking description and implementation has been
\* processed and has its two errors.
C9_Witness ==
    \E p \in Retained :
        /\ Kind(p, "action")
        /\ AbsentRequired(p, "action") = {"description", "implementation"}
        /\ Count(self.errors, p, "missing_required_field") = 2

\* -------------------------------------------------------------------- C10

\* The first invocation was a full run.
PrevFull == run = 2 /\ ~prev.syntax_only /\ ~prev.cross_file_only

SyntaxStageLeft(p) ==
    IF Loaded(p) THEN p \in Retained ELSE CountFor(self.errors, p) >= 1

\* While the cross-file stage runs, every file of the project has been
\* processed by the syntax stage.
CrossAfterSyntaxState == (pc = "cross") => \A p \in Paths : SyntaxStageLeft(p)

\* A step of the cross-file stage leaves the four symbol-table structures and
\* the retained documents as they were.
CrossFrameStep ==
    (pc = "cross") =>
        /\ self'.schema_objects = self.schema_objects
        /\ self'.schema_fields = self.schema_fields
        /\ self'.action_names = self.action_names
        /\ self'.integration_names = self.integration_names
        /\ self'.all_files = self.all_files

\* C11: the cross-file stage runs only once the syntax stage has processed
\* every file of the project, and no step of it changes schema_objects,
\* schema_fields, action_names, integration_names or the retained documents.
C11_CrossAfterSyntaxAndFrame == []CrossAfterSyntaxState /\ [][CrossFrameStep]_vars

\* The ordering where the syntax stage is not skipped: it holds there, so C11
\* fails only in the cross-file-only call (C2).
CrossAfterSyntaxWhenNotSkipped ==
    (pc = "cross" /\ ~cross_file_only) => \A p \in Paths : SyntaxStageLeft(p)

\* The frame part alone: it holds in every run.
CrossFrameAlways == [][CrossFrameStep]_vars

\* -------------------------------------------------------------------- C12

\* later is earlier with entries added at the end.
Extends(later, earlier) ==
    /\ Len(later) >= Len(earlier)
    /\ SubSeq(later, 1, Len(earlier)) = earlier

\* A step inside one run: the validator is the same object before and after.
SameRun == run' = run

\* C12: every step of a run leaves the entries of the errors list and of the
\* warnings list in place, in order and unmodified, and only adds entries at
\* the end: each list extends its value in the state before, and so in every
\* earlier state of the run.
C12_ListsAppendOnly ==
    [][SameRun => /\ Extends(self'.errors, self.errors)
                  /\ Extends(self'.warnings, self.warnings)]_vars

\* A run has ended with errors of both stages (a resolution error after a
\* syntax error) and a warning.
C12_Witness ==
    /\ pc = "done"
    /\ self.warnings # <<>>
    /\ \E q, r \in 1..Len(self.errors) :
           /\ q < r
           /\ self.errors[q].error_type \notin ResolutionCategories
           /\ self.errors[r].error_type \in ResolutionCategories

\* -------------------------------------------------------------------- C13

\* The position of a retained path in all_files.
PosOf(p) == CHOOSE q \in 1..Len(self.all_files) : self.all_files[q] = p

\* The cross-file stage of this run has resolved the retained document p to
\* its end: its iteration is over and did not raise.
CrossResolved(p) ==
    /\ p \in Retained
    /\ \/ pc = "cross" /\ idx > PosOf(p)
       \/ pc = "crashed" /\ idx > PosOf(p) + 1
       \/ pc \in {"report", "done"} /\ ~syntax_only

LayoutName(p) == Get(Data(p), "name", PyNone)

Components(p) == Get(Data(p), "components", PyNone)

ComponentFields(p, ci) == Get(Components(p).c[ci], "fields", PyList(<<>>))

\* The field references of layout p: <<ci, fi>> for entry fi of the fields
\* list of component ci, the entry a string or a mapping with a name key.
Refs(p) ==
    IF ~IsList(Components(p)) THEN {}
    ELSE UNION {
        IF IsDict(Components(p).c[ci]) /\ IsList(ComponentFields(p, ci))
        THEN {<<ci, fi>> : fi \in {f \in 1..Len(ComponentFields(p, ci).c) :
                 LET e == ComponentFields(p, ci).c[f]
                 IN  IsStr(e) \/ (IsDict(e) /\ HasKey(e, "name"))}}
        ELSE {} : ci \in 1..Len(Components(p).c)}

\* The text of reference r.
RefText(p, r) ==
    LET e == ComponentFields(p, r[1]).c[r[2]]
    IN  IF IsStr(e) THEN e ELSE Get(e, "name", PyNone)

\* A qualified reference: a string with a '.'.
Qualified(v) == IsStr(v) /\ DotIn(v)

\* The object a reference is resolved against: the part before the first '.'
\* of a qualified one, the enclosing layout's name for a bare one.
RefObject(p, r) ==
    IF Qualified(RefText(p, r)) THEN SplitDot(RefText(p, r).s)[1] ELSE LayoutName(p)

RefField(p, r) ==
    IF Qualified(RefText(p, r)) THEN SplitDot(RefText(p, r).s)[2] ELSE RefText(p, r)

\* The field set the symbol table holds for an object.
FieldSet(obj) ==
    IF obj \in DOMAIN self.schema_fields THEN self.schema_fields[obj] ELSE {}

\* The rule: the object is a registered schema object and the field is not
\* in its field set.
Unresolved(p, r) ==
    /\ RefObject(p, r) \in self.schema_objects
    /\ RefField(p, r) \notin FieldSet(RefObject(p, r))

RefMessage(p, r) ==
    <<"Field not found: ">> \o Str(RefObject(p, r)) \o <<".">> \o Str(RefField(p, r))

\* How many missing_field_reference errors about p carry the message.
CountFieldNotFound(p, message) ==
    Cardinality({q \in 1..Len(self.errors) :
        /\ self.errors[q].file_path = p
        /\ self.errors[q].error_type = "missing_field_reference"
        /\ self.errors[q].severity = "error"
        /\ self.errors[q].message = message})

\* Layout p has no diagnostic of a resolution category in either list.
NoResolutionDiagnosticFor(p) ==
    /\ \A q \in 1..Len(self.errors) : self.errors[q].file_path = p =>
           self.errors[q].error_type \notin ResolutionCategories
    /\ \A q \in 1..Len(self.warnings) : self.warnings[q].file_path = p =>
           self.warnings[q].error_type \notin ResolutionCategories

\* C13: for every layout the cross-file stage has resolved, each field
\* reference (qualified object.field, or bare and then taken against the
\* layout's own name) has one missing_field_reference error exactly when its
\* object is a registered schema object and its field is not in the object's
\* field set, and none when the object is not registered; the layout has no
\* other missing_field_reference error. A layout named after a registered
\* schema object whose references are all to fields in that object's field
\* set has no error and no warning of the cross-file stage.
C13_FieldReferenceRule ==
    \A p \in Paths : (Kind(p, "layout") /\ CrossResolved(p)) =>
        /\ \A r \in Refs(p) :
               CountFieldNotFound(p, RefMessage(p, r))
                   = Cardinality({r2 \in Refs(p) :
                         Unresolved(p, r2) /\ RefMessage(p, r2) = RefMessage(p, r)})
        /\ Count(self.errors, p, "missing_field_reference")
               = Cardinality({r \in Refs(p) : Unresolved(p, r)})
        /\ (/\ LayoutName(p) \in self.schema_objects
            /\ \A r \in Refs(p) :
                   /\ RefObject(p, r) = LayoutName(p)
                   /\ RefField(p, r) \in FieldSet(LayoutName(p)))
               => NoResolutionDiagnosticFor(p)

\* A full run has ended over a schema and a layout named after it whose
\* references cover the cases: a field of the schema (no error), a field the
\* schema lacks, bare and qualified (one error each), and a field of an object
\* that is not registered (no error).
C13_Witness ==
    /\ pc = "done" /\ FullRun
    /\ \E p \in Paths :
        /\ Kind(p, "layout") /\ CrossResolved(p)
        /\ LayoutName(p) \in self.schema_objects
        /\ \E r \in Refs(p) : ~Qualified(RefText(p, r)) /\ ~Unresolved(p, r)
        /\ \E r \in Refs(p) : ~Qualified(RefText(p, r)) /\ Unresolved(p, r)
        /\ \E r \in Refs(p) : Qualified(RefText(p, r)) /\ Unresolved(p, r)
        /\ \E r \in Refs(p) :
               Qualified(RefText(p, r)) /\ RefObject(p, r) \notin self.schema_objects
        /\ Count(self.errors, p, "missing_field_reference") = 2

\* The case of valid_schema.ps and valid_layout.ps: a full run has ended over
\* a schema and a layout named after it that lists only fields of its field
\* set, with no diagnostic about the layout.
ScenarioAResolved ==
    /\ pc = "done" /\ FullRun
    /\ \E p \in Paths :
        /\ Kind(p, "layout") /\ CrossResolved(p)
        /\ LayoutName(p) \in self.schema_objects
        /\ Refs(p) # {}
        /\ \A r \in Refs(p) : RefField(p, r) \in FieldSet(LayoutName(p))
        /\ CountFor(self.errors, p) = 0 /\ CountFor(self.warnings, p) = 0

\* -------------------------------------------------------------------- C14

ActionField(p) == Get(Data(p), "action", PyNone)

\* The action field of document p is present, a mapping, and has no ref key.
ActionMappingWithoutRef(p) ==
    /\ HasKey(Data(p), "action")
    /\ IsDict(ActionField(p))
    /\ ~HasKey(ActionField(p), "ref")

\* C14: every automation document the syntax stage has processed has one
\* missing_action_ref error if its action field is present, a mapping and
\* without a ref key, and none otherwise; one with no action field has the
\* missing_required_field error for action and no missing_action_ref error.
C14_MissingActionRef ==
    \A p \in Retained : Kind(p, "automation") =>
        /\ Count(self.errors, p, "missing_action_ref")
               = IF ActionMappingWithoutRef(p) THEN 1 ELSE 0
        /\ ~HasKey(Data(p), "action") =>
               /\ CountMissing(p, "action") = 1
               /\ Count(self.errors, p, "missing_action_ref") = 0

\* The same for the automation documents that have an action field: it holds
\* there.
MissingActionRefWhenActionPresent ==
    \A p \in Retained : (Kind(p, "automation") /\ HasKey(Data(p), "action")) =>
        Count(self.errors, p, "missing_action_ref")
            = IF ActionMappingWithoutRef(p) THEN 1 ELSE 0

\* What the code does with an automation document that has no action field:
\* the missing_required_field error for action and a missing_action_ref error.
MissingActionGetsBothErrors ==
    \A p \in Retained : (Kind(p, "automation") /\ ~HasKey(Data(p), "action")) =>
        /\ CountMissing(p, "action") = 1
        /\ Count(self.errors, p, "missing_action_ref") = 1

\* -------------------------------------------------------------------- C15

TagsField(p) == Get(Data(p), "tags", PyNone)

\* C15: every action document with a tags field that the syntax stage has
\* processed has one invalid_tags error if the tags value is not a sequence,
\* whatever the value (empty and falsy ones too), and none if it is one.
C15_InvalidTags ==
    \A p \in Retained : (Kind(p, "action") /\ HasKey(Data(p), "tags")) =>
        Count(self.errors, p, "invalid_tags")
            = IF ~IsList(TagsField(p)) THEN 1 ELSE 0

\* The same for the tags values that are not empty (truthy): it holds there.
InvalidTagsWhenTruthy ==
    \A p \in Retained :
        (Kind(p, "action") /\ HasKey(Data(p), "tags") /\ Truthy(TagsField(p))) =>
            Count(self.errors, p, "invalid_tags")
                = IF ~IsList(TagsField(p)) THEN 1 ELSE 0

\* What the code does with an empty (falsy) tags value: no invalid_tags error,
\* sequence or not.
FalsyTagsNeverFlagged ==
    \A p \in Retained :
        (Kind(p, "action") /\ HasKey(Data(p), "tags") /\ ~Truthy(TagsField(p))) =>
            Count(self.errors, p, "invalid_tags") = 0

====
